---- MODULE Spec2Model ----
(***************************************************************************)
(* Policy Advisor (src/main.py): the sentence deduplication routine        *)
(* deduplicate_text, the difflib similarity ratio it relies on, and the    *)
(* top-level Streamlit script that loads / builds the vector index and     *)
(* answers one question per run.                                           *)
(*                                                                         *)
(* Strings are sequences of one-character strings.  Python indices are     *)
(* kept 0-based and half-open in the difflib operators; a[i] in Python is  *)
(* a[i+1] here.                                                            *)
(***************************************************************************)
EXTENDS Integers, Sequences, FiniteSets, TLC

VARIABLES
    \* ---- deduplicate_text(text, threshold) ----
    dpc,                \* position in deduplicate_text
    text,               \* parameter text
    threshold,          \* parameter threshold, a rational <<num, den>>
    sentences,          \* local sentences (result of re.split)
    idx,                \* position of the for loop in sentences (1-based)
    deduped_sentences,  \* local deduped_sentences, the Retained Set
    kept,               \* history: index in sentences of every appended unit
    result,             \* return value
    \* ---- the script ----
    pc,                 \* position in the script
    vectorstore_exists, \* os.path.exists(VECTORSTORE_DIR)
    db,                 \* "None", "loaded" (FAISS.load_local) or "created"
    loaded_existing,    \* flag loaded_existing
    chunks,             \* "unbound", "empty" or "nonempty"
    docs,               \* page_content of the retrieved documents
    merged_text,        \* merged_text
    summarizer_calls,   \* history: text argument of every summarize_with_ollama call
    trace               \* history: collaborator calls and UI messages of this run

dvars == <<dpc, text, threshold, sentences, idx, deduped_sentences, kept, result>>
svars == <<pc, vectorstore_exists, db, loaded_existing, chunks, docs, merged_text,
           summarizer_calls, trace>>
vars == <<dpc, text, threshold, sentences, idx, deduped_sentences, kept, result,
          pc, vectorstore_exists, db, loaded_existing, chunks, docs, merged_text,
          summarizer_calls, trace>>

-----------------------------------------------------------------------------
(* Bounds of the model *)

\* number of pieces an input text of deduplicate_text is assembled from
MaxPieces == 4
\* number of documents one retrieval returns in the model (the code asks for k = 5)
MaxDocs == 2

-----------------------------------------------------------------------------
(* Characters *)

\* whitespace as matched by \s and removed by str.strip()
Whitespace == {" ", "\n"}
\* the sentence-ending characters of the lookbehind (?<=[.!?])
Punct == {".", "!", "?"}

Max(S) == CHOOSE x \in S : \A y \in S : y <= x
Min(S) == CHOOSE x \in S : \A y \in S : x <= y

-----------------------------------------------------------------------------
(* re.split(r'(?<=[.!?])\s+', text) *)

\* first 1-based position >= i of s that is not whitespace (Len(s)+1 if none):
\* the greedy \s+ consumes the whole run
RECURSIVE run_end(_, _)
run_end(s, i) ==
    IF i <= Len(s) /\ s[i] \in Whitespace THEN run_end(s, i + 1) ELSE i

RECURSIVE split_from(_, _, _, _)
split_from(s, i, cur, acc) ==
    IF i > Len(s) THEN Append(acc, cur)
    ELSE IF s[i] \in Whitespace /\ i > 1 /\ s[i - 1] \in Punct
         THEN split_from(s, run_end(s, i), <<>>, Append(acc, cur))
         ELSE split_from(s, i + 1, Append(cur, s[i]), acc)

re_split(s) == split_from(s, 1, <<>>, <<>>)

-----------------------------------------------------------------------------
(* str.strip() and str.join() *)

RECURSIVE lstrip(_)
lstrip(s) ==
    IF s # <<>> /\ Head(s) \in Whitespace THEN lstrip(Tail(s)) ELSE s

RECURSIVE rstrip(_)
rstrip(s) ==
    IF s # <<>> /\ s[Len(s)] \in Whitespace
    THEN rstrip(SubSeq(s, 1, Len(s) - 1)) ELSE s

strip(s) == rstrip(lstrip(s))

\* variant of join that drops the separator
RECURSIVE join_nosep(_, _)
join_nosep(sep, list) ==
    IF list = <<>> THEN <<>> ELSE list[1] \o join_nosep(sep, Tail(list))

RECURSIVE join(_, _)
join(sep, list) ==
    IF list = <<>> THEN <<>>
    ELSE IF Len(list) = 1 THEN list[1]
    ELSE list[1] \o sep \o join(sep, Tail(list))

-----------------------------------------------------------------------------
(* difflib.SequenceMatcher(None, a, b).ratio()                             *)
(* isjunk is None and both strings are shorter than 200 characters, so no  *)
(* element of b is junk or "popular".                                      *)

\* length of the common run of a[i:ahi] and b[j:bhi] starting at (i, j)
RECURSIVE match_len(_, _, _, _, _, _)
match_len(a, b, i, j, ahi, bhi) ==
    IF i < ahi /\ j < bhi /\ a[i + 1] = b[j + 1]
    THEN 1 + match_len(a, b, i + 1, j + 1, ahi, bhi)
    ELSE 0

\* the longest matching block in a[alo:ahi], b[blo:bhi]: of all maximal blocks
\* the one starting earliest in a, and of those the one starting earliest in b
find_longest_match(a, b, alo, ahi, blo, bhi) ==
    LET I == alo .. (ahi - 1)
        J == blo .. (bhi - 1)
        bestsize == Max({0} \cup {match_len(a, b, i, j, ahi, bhi) : i \in I, j \in J})
    IN  IF bestsize = 0 THEN <<alo, blo, 0>>
        ELSE LET besti == Min({i \in I : \E j \in J :
                                   match_len(a, b, i, j, ahi, bhi) = bestsize})
                 bestj == Min({j \in J :
                                   match_len(a, b, besti, j, ahi, bhi) = bestsize})
             IN  <<besti, bestj, bestsize>>

\* sum of the sizes of get_matching_blocks(): the longest block, then the
\* pieces to its left and to its right, recursively
RECURSIVE matches(_, _, _, _, _, _)
matches(a, b, alo, ahi, blo, bhi) ==
    LET m == find_longest_match(a, b, alo, ahi, blo, bhi)
        i == m[1]
        j == m[2]
        k == m[3]
    IN  IF k = 0 THEN 0
        ELSE k
             + (IF alo < i /\ blo < j THEN matches(a, b, alo, i, blo, j) ELSE 0)
             + (IF i + k < ahi /\ j + k < bhi
                THEN matches(a, b, i + k, ahi, j + k, bhi) ELSE 0)

\* _calculate_ratio: 2.0 * matches / length, 1.0 when length is 0; kept as
\* the exact fraction <<num, den>>
ratio(a, b) ==
    LET length == Len(a) + Len(b)
    IN  IF length = 0 THEN <<1, 1>>
        ELSE <<2 * matches(a, b, 0, Len(a), 0, Len(b)), length>>

\* x > y on fractions <<num, den>> with positive denominators
Gt(x, y) == x[1] * y[2] > y[1] * x[2]

-----------------------------------------------------------------------------
(* deduplicate_text *)

\* variants of the inner loop with a plausible slip each
\* only the unit retained last is compared
duplicate_found_last(clean_sentence, deduped, t) ==
    /\ deduped # <<>>
    /\ Gt(ratio(clean_sentence, deduped[Len(deduped)]), t)

\* only the unit retained first is compared
duplicate_found_first(clean_sentence, deduped, t) ==
    /\ deduped # <<>>
    /\ Gt(ratio(clean_sentence, deduped[1]), t)

\* >= instead of >
duplicate_found_ge(clean_sentence, deduped, t) ==
    \E e \in 1 .. Len(deduped) : ~Gt(t, ratio(clean_sentence, deduped[e]))

\* < instead of >
duplicate_found_lt(clean_sentence, deduped, t) ==
    \E e \in 1 .. Len(deduped) : Gt(t, ratio(clean_sentence, deduped[e]))

\* the inner loop: some retained unit has ratio(clean_sentence, existing) > threshold
duplicate_found(clean_sentence, deduped, t) ==
    \E e \in 1 .. Len(deduped) : Gt(ratio(clean_sentence, deduped[e]), t)

\* variants of the loop body with a plausible slip each
\* the unit is inserted in front
loop_body_prepend(deduped, sentence, t) ==
    LET clean_sentence == strip(sentence)
    IN  IF clean_sentence = <<>> THEN deduped
        ELSE IF duplicate_found(clean_sentence, deduped, t) THEN deduped
        ELSE <<clean_sentence>> \o deduped

\* the test for the empty unit is missing
loop_body_noskip(deduped, sentence, t) ==
    LET clean_sentence == strip(sentence)
    IN  IF duplicate_found(clean_sentence, deduped, t) THEN deduped
        ELSE Append(deduped, clean_sentence)

\* one iteration of the outer loop, as a function of the Retained Set
loop_body(deduped, sentence, t) ==
    LET clean_sentence == strip(sentence)
    IN  IF clean_sentence = <<>> THEN deduped
        ELSE IF duplicate_found(clean_sentence, deduped, t) THEN deduped
        ELSE Append(deduped, clean_sentence)

RECURSIVE dedup_loop(_, _, _)
dedup_loop(deduped, sents, t) ==
    IF sents = <<>> THEN deduped
    ELSE dedup_loop(loop_body(deduped, Head(sents), t), Tail(sents), t)

\* the Retained Set at the end of a pass
retained(s, t) == dedup_loop(<<>>, re_split(s), t)

\* the whole function
deduplicate_text(s, t) == join(<<" ">>, retained(s, t))

\* threshold=0.8
DefaultThreshold == <<4, 5>>

-----------------------------------------------------------------------------
(* Inputs of the model *)

\* thresholds in [0,1], as fractions
Thresholds == {<<0, 1>>, <<2, 5>>, <<1, 2>>, <<4, 5>>, <<1, 1>>}

\* the pieces input texts are assembled from: sentences and near-sentences
\* with their separator, a whitespace-only piece, punctuation that is not
\* followed by whitespace, and a piece without sentence-ending punctuation
Pieces ==
    { <<".", " ">>,
      <<"a", "b">>,
      <<"a", "b", ".", " ">>,
      <<"b", "b", "a", ".", " ">>,
      <<" ", "\n">>,
      <<"a", "?">> }

\* all concatenations of at most n pieces
RECURSIVE TextsOf(_)
TextsOf(n) ==
    IF n = 0 THEN {<<>>}
    ELSE LET T == TextsOf(n - 1) IN T \cup {t \o p : t \in T, p \in Pieces}

Texts == TextsOf(MaxPieces)

\* page_content of the chunks a retrieval can return
ChunkTexts ==
    { <<"a", "b", ".">>,
      <<"a", "b", ".", " ", "a", "a", "a", ".">>,
      <<"a", "a", "a", ".", "\n", "b">>,
      <<"b", ".", " ">> }

RECURSIVE SeqsUpTo(_, _)
SeqsUpTo(S, n) ==
    IF n = 0 THEN {<<>>}
    ELSE LET T == SeqsUpTo(S, n - 1) IN T \cup {Append(t, x) : t \in T, x \in S}

-----------------------------------------------------------------------------
(* deduplicate_text as a step machine: one step per iteration of the outer *)
(* loop (the inner loop only computes duplicate_found)                     *)

\* lines 42-43
dedup_split ==
    /\ dpc = "entry"
    /\ sentences' = re_split(text)
    /\ deduped_sentences' = <<>>
    /\ kept' = <<>>
    /\ idx' = 1
    /\ dpc' = "loop"
    /\ UNCHANGED <<text, threshold, result>>

\* lines 45-47: the trimmed unit is empty
dedup_skip_empty ==
    /\ dpc = "loop"
    /\ idx <= Len(sentences)
    /\ strip(sentences[idx]) = <<>>
    /\ deduped_sentences' = loop_body(deduped_sentences, sentences[idx], threshold)
    /\ idx' = idx + 1
    /\ UNCHANGED <<dpc, text, threshold, sentences, kept, result>>

\* lines 48-53: some retained unit is too similar
dedup_discard ==
    /\ dpc = "loop"
    /\ idx <= Len(sentences)
    /\ strip(sentences[idx]) # <<>>
    /\ duplicate_found(strip(sentences[idx]), deduped_sentences, threshold)
    /\ deduped_sentences' = loop_body(deduped_sentences, sentences[idx], threshold)
    /\ idx' = idx + 1
    /\ UNCHANGED <<dpc, text, threshold, sentences, kept, result>>

\* lines 53-54: no retained unit is too similar
dedup_append ==
    /\ dpc = "loop"
    /\ idx <= Len(sentences)
    /\ strip(sentences[idx]) # <<>>
    /\ ~duplicate_found(strip(sentences[idx]), deduped_sentences, threshold)
    /\ deduped_sentences' = loop_body(deduped_sentences, sentences[idx], threshold)
    /\ kept' = IF deduped_sentences' # deduped_sentences THEN Append(kept, idx) ELSE kept
    /\ idx' = idx + 1
    /\ UNCHANGED <<dpc, text, threshold, sentences, result>>

\* line 55
dedup_return ==
    /\ dpc = "loop"
    /\ idx > Len(sentences)
    /\ result' = join(<<" ">>, deduped_sentences)
    /\ dpc' = "done"
    /\ UNCHANGED <<text, threshold, sentences, idx, deduped_sentences, kept>>

-----------------------------------------------------------------------------
(* deduplicate_text called on its own, with any text and threshold *)

InitDedup ==
    /\ dpc = "entry"
    /\ text \in Texts
    /\ threshold \in Thresholds
    /\ sentences = <<>>
    /\ idx = 1
    /\ deduped_sentences = <<>>
    /\ kept = <<>>
    /\ result = <<>>
    /\ pc = "lib"
    /\ vectorstore_exists = FALSE
    /\ db = "None"
    /\ loaded_existing = FALSE
    /\ chunks = "unbound"
    /\ docs = <<>>
    /\ merged_text = <<>>
    /\ summarizer_calls = <<>>
    /\ trace = <<>>

NextDedup ==
    \/ dedup_split /\ UNCHANGED svars
    \/ dedup_skip_empty /\ UNCHANGED svars
    \/ dedup_discard /\ UNCHANGED svars
    \/ dedup_append /\ UNCHANGED svars
    \/ dedup_return /\ UNCHANGED svars

SpecDedup == InitDedup /\ [][NextDedup]_vars

-----------------------------------------------------------------------------
(* The script, lines 95-156.  One run of the script is one pass from       *)
(* "start" to "end" or "aborted"; Streamlit runs it again on the next      *)
(* interaction of the user.                                                *)

Log(events) == trace \o events

\* line 121: if db and loaded_existing
add_to_existing_branch == db # "None" /\ loaded_existing

\* line 100: the directory does not exist
no_vectorstore_dir ==
    /\ pc = "start"
    /\ ~vectorstore_exists
    /\ pc' = "upload"
    /\ UNCHANGED <<vectorstore_exists, db, loaded_existing, chunks, docs, merged_text,
                   summarizer_calls, trace>>
    /\ UNCHANGED dvars

\* lines 100-104: FAISS.load_local returns
load_local_ok ==
    /\ pc = "start"
    /\ vectorstore_exists
    /\ db' = "loaded"
    /\ loaded_existing' = TRUE
    /\ trace' = Log(<<"load_local", "st_success_loaded">>)
    /\ pc' = "upload"
    /\ UNCHANGED <<vectorstore_exists, chunks, docs, merged_text, summarizer_calls>>
    /\ UNCHANGED dvars

\* variant: the handler swallows the exception (except: pass)
load_local_fails_silent ==
    /\ pc = "start"
    /\ vectorstore_exists
    /\ trace' = Log(<<"load_local", "load_local_failed">>)
    /\ pc' = "upload"
    /\ UNCHANGED <<vectorstore_exists, db, loaded_existing, chunks, docs, merged_text,
                   summarizer_calls>>
    /\ UNCHANGED dvars

\* variant: loaded_existing is set before load_local is called
load_local_fails_flagged ==
    /\ pc = "start"
    /\ vectorstore_exists
    /\ loaded_existing' = TRUE
    /\ trace' = Log(<<"load_local", "load_local_failed", "st_error_loading">>)
    /\ pc' = "upload"
    /\ UNCHANGED <<vectorstore_exists, db, chunks, docs, merged_text, summarizer_calls>>
    /\ UNCHANGED dvars

\* lines 100-102, 105-106: FAISS.load_local raises, the handler reports it
load_local_fails ==
    /\ pc = "start"
    /\ vectorstore_exists
    /\ trace' = Log(<<"load_local", "load_local_failed", "st_error_loading">>)
    /\ pc' = "upload"
    /\ UNCHANGED <<vectorstore_exists, db, loaded_existing, chunks, docs, merged_text,
                   summarizer_calls>>
    /\ UNCHANGED dvars

\* line 112: uploaded_file is None
no_upload ==
    /\ pc = "upload"
    /\ pc' = "question"
    /\ UNCHANGED <<vectorstore_exists, db, loaded_existing, chunks, docs, merged_text,
                   summarizer_calls, trace>>
    /\ UNCHANGED dvars

\* lines 112-117: the uploaded file is written to CACHED_DOCS_DIR
upload_file ==
    /\ pc = "upload"
    /\ trace' = Log(<<"st_write_saved">>)
    /\ pc' = "chunking"
    /\ UNCHANGED <<vectorstore_exists, db, loaded_existing, chunks, docs, merged_text,
                   summarizer_calls>>
    /\ UNCHANGED dvars

\* line 119 (58-61): load_and_chunk_docs raises.  The call is in no try
\* block: the exception leaves the script, which stops, and the Streamlit
\* script runner renders the exception in the page.
load_and_chunk_raises ==
    /\ pc = "chunking"
    /\ trace' = Log(<<"load_and_chunk_docs", "load_and_chunk_docs_failed",
                      "uncaught_exception_shown">>)
    /\ pc' = "aborted"
    /\ UNCHANGED <<vectorstore_exists, db, loaded_existing, chunks, docs, merged_text,
                   summarizer_calls>>
    /\ UNCHANGED dvars

\* lines 119-124: chunks, added to the loaded index
add_to_existing ==
    /\ pc = "chunking"
    /\ add_to_existing_branch
    /\ chunks' = "nonempty"
    /\ vectorstore_exists' = TRUE
    /\ trace' = Log(<<"load_and_chunk_docs", "st_write_chunks", "add_documents",
                      "save_local", "st_success_added">>)
    /\ pc' = "question"
    /\ UNCHANGED <<db, loaded_existing, docs, merged_text, summarizer_calls>>
    /\ UNCHANGED dvars

\* lines 119-120, 125-128: chunks, a new index is built and saved
create_new ==
    /\ pc = "chunking"
    /\ ~add_to_existing_branch
    /\ chunks' = "nonempty"
    /\ db' = "created"
    /\ vectorstore_exists' = TRUE
    /\ trace' = Log(<<"load_and_chunk_docs", "st_write_chunks", "from_documents",
                      "save_local", "st_success_created">>)
    /\ pc' = "question"
    /\ UNCHANGED <<loaded_existing, docs, merged_text, summarizer_calls>>
    /\ UNCHANGED dvars

\* lines 119-120, 129-130: no chunks
no_chunks ==
    /\ pc = "chunking"
    /\ chunks' = "empty"
    /\ trace' = Log(<<"load_and_chunk_docs", "st_write_chunks", "st_error_extract">>)
    /\ pc' = "question"
    /\ UNCHANGED <<vectorstore_exists, db, loaded_existing, docs, merged_text,
                   summarizer_calls>>
    /\ UNCHANGED dvars

\* lines 133, 155-156: db is None
no_db ==
    /\ pc = "question"
    /\ db = "None"
    /\ trace' = Log(<<"st_info_upload">>)
    /\ pc' = "end"
    /\ UNCHANGED <<vectorstore_exists, db, loaded_existing, chunks, docs, merged_text,
                   summarizer_calls>>
    /\ UNCHANGED dvars

\* lines 133-138: the text input is empty
no_query ==
    /\ pc = "question"
    /\ db # "None"
    /\ pc' = "end"
    /\ UNCHANGED <<vectorstore_exists, db, loaded_existing, chunks, docs, merged_text,
                   summarizer_calls, trace>>
    /\ UNCHANGED dvars

\* lines 133-141: a question, the retriever returns docs
retrieve ==
    /\ pc = "question"
    /\ db # "None"
    /\ \E d \in SeqsUpTo(ChunkTexts, MaxDocs) : docs' = d
    /\ trace' = Log(<<"get_relevant_documents">>)
    /\ pc' = "retrieved"
    /\ UNCHANGED <<vectorstore_exists, db, loaded_existing, chunks, merged_text,
                   summarizer_calls>>
    /\ UNCHANGED dvars

\* lines 143-144
no_docs ==
    /\ pc = "retrieved"
    /\ docs = <<>>
    /\ trace' = Log(<<"st_warning_no_info">>)
    /\ pc' = "end"
    /\ UNCHANGED <<vectorstore_exists, db, loaded_existing, chunks, docs, merged_text,
                   summarizer_calls>>
    /\ UNCHANGED dvars

\* lines 146-147: "\n".join(...), then the call deduplicate_text(merged_text)
merge_and_call ==
    /\ pc = "retrieved"
    /\ docs # <<>>
    /\ merged_text' = join(<<"\n">>, docs)
    /\ text' = merged_text'
    /\ threshold' = DefaultThreshold
    /\ dpc' = "entry"
    /\ trace' = Log(<<"join", "deduplicate_text">>)
    /\ pc' = "dedup"
    /\ UNCHANGED <<vectorstore_exists, db, loaded_existing, chunks, docs, summarizer_calls>>
    /\ UNCHANGED <<sentences, idx, deduped_sentences, kept, result>>

\* variant: the value deduplicate_text returned is not assigned
dedup_returned_dropped ==
    /\ pc = "dedup"
    /\ dpc = "done"
    /\ dpc' = "idle"
    /\ pc' = "summarize"
    /\ UNCHANGED <<vectorstore_exists, db, loaded_existing, chunks, docs, merged_text,
                   summarizer_calls, trace>>
    /\ UNCHANGED <<text, threshold, sentences, idx, deduped_sentences, kept, result>>

\* line 147: merged_text = the value deduplicate_text returned
dedup_returned ==
    /\ pc = "dedup"
    /\ dpc = "done"
    /\ merged_text' = result
    /\ dpc' = "idle"
    /\ pc' = "summarize"
    /\ UNCHANGED <<vectorstore_exists, db, loaded_existing, chunks, docs,
                   summarizer_calls, trace>>
    /\ UNCHANGED <<text, threshold, sentences, idx, deduped_sentences, kept, result>>

\* lines 148-154: the answer and its sources are shown
summarize_ok ==
    /\ pc = "summarize"
    /\ summarizer_calls' = Append(summarizer_calls, merged_text)
    /\ trace' = Log(<<"summarize_with_ollama", "st_markdown_answer", "st_expander_sources">>)
    /\ pc' = "end"
    /\ UNCHANGED <<vectorstore_exists, db, loaded_existing, chunks, docs, merged_text>>
    /\ UNCHANGED dvars

\* line 148 (78-82): ollama.chat raises.  As in load_and_chunk_raises no
\* handler encloses the call.
summarize_fails ==
    /\ pc = "summarize"
    /\ summarizer_calls' = Append(summarizer_calls, merged_text)
    /\ trace' = Log(<<"summarize_with_ollama", "summarize_with_ollama_failed",
                      "uncaught_exception_shown">>)
    /\ pc' = "aborted"
    /\ UNCHANGED <<vectorstore_exists, db, loaded_existing, chunks, docs, merged_text>>
    /\ UNCHANGED dvars

\* the next run of the script: lines 96-97 again, the directory stays
rerun ==
    /\ pc \in {"end", "aborted"}
    /\ pc' = "start"
    /\ db' = "None"
    /\ loaded_existing' = FALSE
    /\ chunks' = "unbound"
    /\ docs' = <<>>
    /\ merged_text' = <<>>
    /\ summarizer_calls' = <<>>
    /\ trace' = <<>>
    /\ dpc' = "idle"
    /\ text' = <<>>
    /\ threshold' = DefaultThreshold
    /\ sentences' = <<>>
    /\ idx' = 1
    /\ deduped_sentences' = <<>>
    /\ kept' = <<>>
    /\ result' = <<>>
    /\ UNCHANGED vectorstore_exists

\* a first run without a saved index; runs that find the directory follow
\* through rerun
Init ==
    /\ pc = "start"
    /\ vectorstore_exists = FALSE
    /\ db = "None"
    /\ loaded_existing = FALSE
    /\ chunks = "unbound"
    /\ docs = <<>>
    /\ merged_text = <<>>
    /\ summarizer_calls = <<>>
    /\ trace = <<>>
    /\ dpc = "idle"
    /\ text = <<>>
    /\ threshold = DefaultThreshold
    /\ sentences = <<>>
    /\ idx = 1
    /\ deduped_sentences = <<>>
    /\ kept = <<>>
    /\ result = <<>>

Next ==
    \/ no_vectorstore_dir
    \/ load_local_ok
    \/ load_local_fails
    \/ no_upload
    \/ upload_file
    \/ load_and_chunk_raises
    \/ add_to_existing
    \/ create_new
    \/ no_chunks
    \/ no_db
    \/ no_query
    \/ retrieve
    \/ no_docs
    \/ merge_and_call
    \/ dedup_split /\ UNCHANGED svars
    \/ dedup_skip_empty /\ UNCHANGED svars
    \/ dedup_discard /\ UNCHANGED svars
    \/ dedup_append /\ UNCHANGED svars
    \/ dedup_return /\ UNCHANGED svars
    \/ dedup_returned
    \/ summarize_ok
    \/ summarize_fails
    \/ rerun

Spec == Init /\ [][Next]_vars

-----------------------------------------------------------------------------
(* Properties of deduplicate_text, checked under SpecDedup *)

\* the trimmed unit at position i of sentences
unit(i) == strip(sentences[i])
\* the positions the loop has gone through
Processed == 1 .. (idx - 1)
\* the positions whose unit was appended
KeptSet == {kept[k] : k \in DOMAIN kept}
\* the number of non-empty units of the input
NonEmptyCount == Cardinality({i \in DOMAIN sentences : unit(i) # <<>>})
AllWhitespace(s) == \A i \in DOMAIN s : s[i] \in Whitespace
One == <<1, 1>>

C2_MonotoneSmall ==
    dpc = "done" =>
        \A t2 \in Thresholds :
            (Gt(t2, threshold) /\ (NonEmptyCount <= 3 \/ ~Gt(One, t2)))
                => Len(deduped_sentences) <= Len(retained(text, t2))

\* C2 as stated: for every input and all t1 < t2 the pass at t1 retains at
\* most as many units as the pass at t2.
C2_Original ==
    dpc = "done" =>
        \A t2 \in Thresholds :
            Gt(t2, threshold) => Len(deduped_sentences) <= Len(retained(text, t2))

\* three non-empty units, and a higher threshold below 1 that retains more
C2_Witness ==
    /\ dpc = "done"
    /\ NonEmptyCount = 3
    /\ \E t2 \in Thresholds :
          /\ Gt(t2, threshold)
          /\ Gt(One, t2)
          /\ Len(deduped_sentences) < Len(retained(text, t2))

\* C3 (as amended): a non-empty unit is discarded exactly when an earlier
\* RETAINED unit has similarity above the threshold with it; so of two
\* similar units whose earlier one is retained the later one is discarded.
C3_EarliestRetainedWins ==
    \A j \in Processed :
        unit(j) # <<>> =>
            (j \notin KeptSet <=>
                \E i \in KeptSet : i < j /\ Gt(ratio(unit(j), unit(i)), threshold))

\* C3 as stated: of two units whose similarity exceeds the threshold (here in
\* both argument orders) the later one is never retained while the earlier
\* one is discarded.
C3_Original ==
    \A i, j \in Processed :
        (/\ i < j
         /\ unit(i) # <<>>
         /\ unit(j) # <<>>
         /\ Gt(ratio(unit(j), unit(i)), threshold)
         /\ Gt(ratio(unit(i), unit(j)), threshold))
            => ~(j \in KeptSet /\ i \notin KeptSet)

\* a unit that differs from an earlier retained unit was discarded for it
C3_Witness ==
    \E i, j \in Processed :
        /\ i < j
        /\ i \in KeptSet
        /\ j \notin KeptSet
        /\ unit(j) # <<>>
        /\ unit(j) # unit(i)
        /\ Gt(ratio(unit(j), unit(i)), threshold)

\* C4 (as amended): with threshold 1 every non-empty unit is retained, a unit
\* identical to an already retained one included (no ratio exceeds 1).
C4_ThresholdOneKeepsAll ==
    ~Gt(One, threshold) =>
        /\ \A j \in Processed : unit(j) # <<>> => j \in KeptSet
        /\ Len(deduped_sentences) = Cardinality({j \in Processed : unit(j) # <<>>})

\* C4 as stated: with threshold 1 a unit is discarded exactly when it is
\* identical to an already retained unit.
C4_Original ==
    ~Gt(One, threshold) =>
        \A j \in Processed :
            unit(j) # <<>> =>
                (j \notin KeptSet <=> \E i \in KeptSet : i < j /\ unit(i) = unit(j))

\* threshold 1 and two identical units retained
C4_Witness ==
    /\ ~Gt(One, threshold)
    /\ dpc = "done"
    /\ \E i, j \in DOMAIN deduped_sentences :
          i < j /\ deduped_sentences[i] = deduped_sentences[j]

\* C5: a second pass over the output with the same threshold returns the
\* output: the output splits into the retained units again and none of them
\* is discarded.
C5_Idempotent ==
    dpc = "done" =>
        /\ deduplicate_text(result, threshold) = result
        /\ retained(result, threshold) = deduped_sentences
        /\ (deduped_sentences # <<>> => re_split(result) = deduped_sentences)

\* a pass that discarded a unit and retained two
C5_Witness ==
    /\ dpc = "done"
    /\ Len(deduped_sentences) >= 2
    /\ \E j \in Processed : unit(j) # <<>> /\ j \notin KeptSet

\* position in the output just before retained unit k
RECURSIVE Offset(_)
Offset(k) == IF k = 1 THEN 0 ELSE Offset(k - 1) + Len(deduped_sentences[k - 1]) + 1

C6_Subsequence ==
    /\ Len(kept) = Len(deduped_sentences)
    /\ \A k \in DOMAIN kept :
          /\ kept[k] \in Processed
          /\ unit(kept[k]) # <<>>
          /\ deduped_sentences[k] = unit(kept[k])
    /\ \A k, l \in DOMAIN kept : k < l => kept[k] < kept[l]

C6_Output ==
    dpc = "done" =>
        LET n == Len(deduped_sentences)
        IN  /\ Len(result) = IF n = 0 THEN 0 ELSE Offset(n) + Len(deduped_sentences[n])
            /\ \A k \in 1 .. n :
                  /\ SubSeq(result, Offset(k) + 1, Offset(k) + Len(deduped_sentences[k]))
                        = deduped_sentences[k]
                  /\ k < n => result[Offset(k) + Len(deduped_sentences[k]) + 1] = " "

C6_AppendOnly ==
    dpc = "loop" =>
        /\ sentences' = sentences
        /\ \/ deduped_sentences' = deduped_sentences
           \/ \E x \in {unit(idx)} : deduped_sentences' = Append(deduped_sentences, x)

\* C6: at every step the Retained Set is the sequence of trimmed non-empty
\* units at increasing positions of the input, a step leaves it alone or
\* appends the current unit at its end, and the value returned is the
\* retained units with one space between neighbours.
C6_OrderPreserved ==
    /\ [](C6_Subsequence /\ C6_Output)
    /\ [][C6_AppendOnly]_vars

\* a pass that skipped an empty segment, discarded a unit and retained two
C6_Witness ==
    /\ dpc = "done"
    /\ Len(deduped_sentences) >= 2
    /\ \E j \in Processed : unit(j) = <<>>
    /\ \E j \in Processed : unit(j) # <<>> /\ j \notin KeptSet

\* C7: no retained unit is empty or whitespace only, and the value returned
\* for the empty text and for a text of whitespace only is the empty string.
C7_NoEmptyUnit ==
    /\ \A k \in DOMAIN deduped_sentences : ~AllWhitespace(deduped_sentences[k])
    /\ (dpc = "done" /\ AllWhitespace(text)) => result = <<>>

\* a finished pass over a non-empty text of whitespace only
C7_Witness ==
    /\ dpc = "done"
    /\ text # <<>>
    /\ AllWhitespace(text)
    /\ result = <<>>

-----------------------------------------------------------------------------
(* Properties of the script, checked under Spec *)

InTrace(e) == \E i \in DOMAIN trace : trace[i] = e
Count(e) == Cardinality({i \in DOMAIN trace : trace[i] = e})
IsPrefix(p, q) == Len(p) <= Len(q) /\ \A i \in DOMAIN p : p[i] = q[i]

\* the events of one answered question, in the order of the control flow
Flow ==
    <<"get_relevant_documents", "join", "deduplicate_text", "summarize_with_ollama",
      "st_markdown_answer">>
IsFlowEvent(e) == \E i \in DOMAIN Flow : Flow[i] = e

\* C8: the events of a question occur in the order retrieval, concatenation,
\* deduplication, summarization, answer; the summarizer is only called with
\* deduplicate_text of the retrieved chunks joined by newlines; when nothing
\* is retrieved a warning is shown and the summarizer is not called.
C8_QuestionFlow ==
    /\ IsPrefix(SelectSeq(trace, IsFlowEvent), Flow)
    /\ Len(summarizer_calls) = Count("summarize_with_ollama")
    /\ \A c \in DOMAIN summarizer_calls :
          /\ docs # <<>>
          /\ summarizer_calls[c] = deduplicate_text(join(<<"\n">>, docs), DefaultThreshold)
    /\ (InTrace("get_relevant_documents") /\ docs = <<>>) =>
          /\ summarizer_calls = <<>>
          /\ pc \in {"end", "aborted"} => InTrace("st_warning_no_info")
    /\ InTrace("st_warning_no_info") => docs = <<>>

\* an answer is shown for chunks the deduplication shortened
C8_Witness ==
    /\ pc = "end"
    /\ InTrace("st_markdown_answer")
    /\ Len(summarizer_calls) = 1
    /\ summarizer_calls[1] # join(<<"\n">>, docs)

Failures == {"load_local_failed", "load_and_chunk_docs_failed", "summarize_with_ollama_failed"}
ErrorMessages == {"st_error_loading", "st_error_extract", "uncaught_exception_shown"}
CollaboratorCalls == {"load_local", "load_and_chunk_docs", "summarize_with_ollama"}

C10_IndexLifecycle ==
    /\ loaded_existing => (db = "loaded" /\ ~InTrace("load_local_failed"))
    /\ (db = "loaded") <=> InTrace("st_success_loaded")
    /\ InTrace("add_documents") => (loaded_existing /\ db = "loaded")
    /\ InTrace("from_documents") =>
          /\ ~loaded_existing
          /\ db = "created"
          /\ InTrace("save_local")
          /\ vectorstore_exists
    /\ chunks = "nonempty" =>
          /\ loaded_existing => InTrace("add_documents")
          /\ ~loaded_existing => InTrace("from_documents")
    /\ chunks # "nonempty" => (~InTrace("add_documents") /\ ~InTrace("from_documents"))
    /\ (\/ pc \in {"retrieved", "dedup", "summarize"}
        \/ InTrace("get_relevant_documents")
        \/ summarizer_calls # <<>>) => db # "None"
    /\ (db = "None" /\ pc = "end") => InTrace("st_info_upload")

\* the index failed to load, the upload built a new one, a question was answered
C10_Witness ==
    /\ InTrace("load_local_failed")
    /\ InTrace("from_documents")
    /\ summarizer_calls # <<>>
    /\ pc = "end"

====
